---- MODULE Spec2Model ----
(***************************************************************************)
(* hwhkit: the configuration model, the WebServerBuilder, the middleware   *)
(* manager and the composed router, as a state machine.                    *)
(*                                                                         *)
(* Strings the code parses or formats are sequences of one-character       *)
(* strings; strings the code only stores and compares are TLA+ strings.    *)
(***************************************************************************)
EXTENDS Integers, Sequences, FiniteSets, TLC

\* ------------------------------------------------------------------ bounds

\* Setter calls made on one builder before build().
MaxSetterCalls == 3
\* Longest origins / methods / headers list drawn for the CORS inputs.
MaxListLen == 2
\* Builders made one after the other in one process.
MaxBuilds == 2

\* ----------------------------------------------------------------- strings

S_any == <<"0", ".", "0", ".", "0", ".", "0">>
S_loop == <<"1", "2", "7", ".", "0", ".", "0", ".", "1">>
S_localhost == <<"l", "o", "c", "a", "l", "h", "o", "s", "t">>

STAR == <<"*">>
S_http_x == <<"h", "t", "t", "p", ":", "/", "/", "x">>
S_ctl == <<"x", "\n">>

S_GET == <<"G", "E", "T">>
S_POST == <<"P", "O", "S", "T">>
S_PUT == <<"P", "U", "T">>
S_DELETE == <<"D", "E", "L", "E", "T", "E">>
S_PATCH == <<"P", "A", "T", "C", "H">>
S_OPTIONS == <<"O", "P", "T", "I", "O", "N", "S">>
S_G_T == <<"G", " ", "T">>

S_X_Id == <<"X", "-", "I", "d">>
S_X_sp == <<"X", " ">>

S_static == <<"/", "s", "t", "a", "t", "i", "c">>
S_s == <<"/", "s">>
S_s_slash == <<"/", "s", "/">>

S_info == <<"i", "n", "f", "o">>
S_debug == <<"d", "e", "b", "u", "g">>
S_x_loud == <<"x", "=", "l", "o", "u", "d">>

UpperLetters ==
    <<"A", "B", "C", "D", "E", "F", "G", "H", "I", "J", "K", "L", "M",
      "N", "O", "P", "Q", "R", "S", "T", "U", "V", "W", "X", "Y", "Z">>
LowerLetters ==
    <<"a", "b", "c", "d", "e", "f", "g", "h", "i", "j", "k", "l", "m",
      "n", "o", "p", "q", "r", "s", "t", "u", "v", "w", "x", "y", "z">>
Digits == {"0", "1", "2", "3", "4", "5", "6", "7", "8", "9"}
Range(s) == {s[i] : i \in DOMAIN s}

\* RFC 7230 tchar: the bytes http's Method and HeaderName parsers accept.
AlphaNumeric == Range(UpperLetters) \cup Range(LowerLetters) \cup Digits
TokenChars ==
    AlphaNumeric \cup {"!", "#", "$", "%", "&", "*", "+", "-", ".", "^", "_", "|", "~"}
IsTchar(c) == c \in TokenChars
\* Bytes 32..126.
IsVisibleAscii(c) ==
    c \in TokenChars \cup
         {" ", ",", "/", ":", ";", "<", "=", ">", "?", "@", "[", "]", "{", "}"}
ToAsciiLowercase(c) ==
    IF c \in Range(UpperLetters)
    THEN LowerLetters[CHOOSE i \in DOMAIN UpperLetters : UpperLetters[i] = c]
    ELSE c

\* ------------------------------------------------------------------ results

Ok(v) == [ok |-> TRUE, val |-> v]
Err(variant, msg) == [ok |-> FALSE, variant |-> variant, msg |-> msg]
None == [some |-> FALSE]
Some(v) == [some |-> TRUE, val |-> v]
Unit == "()"

\* ------------------------------------------------------------------- config

EmptyMap == [k \in {} |-> Unit]

CorsConfigDefault ==
    [enabled |-> TRUE,
     origins |-> <<STAR>>,
     methods |-> <<S_GET, S_POST, S_PUT, S_DELETE, S_PATCH, S_OPTIONS>>,
     headers |-> <<STAR>>]
JwtConfigDefault ==
    [enabled |-> FALSE,
     secret |-> "your-secret-key-change-this-in-production",
     expires_in |-> 3600]
StaticConfigDefault == [enabled |-> FALSE, dir |-> "static", prefix |-> S_static]
TemplateConfigDefault == [enabled |-> FALSE, dir |-> "templates", extension |-> "html"]
LogConfigDefault == [level |-> S_info, requests |-> TRUE]
ServerConfigDefault == [host |-> S_any, port |-> 3000, architecture |-> "Api"]

ConfigDefault ==
    [server |-> ServerConfigDefault,
     middleware |->
        [cors |-> CorsConfigDefault,
         jwt |-> JwtConfigDefault,
         static_files |-> StaticConfigDefault,
         templates |-> TemplateConfigDefault,
         logging |-> LogConfigDefault,
         custom |-> EmptyMap]]

\* Path::exists: a read-only stat against the directories present.
PathExists(dir, fsys) == dir \in fsys

PortCheck(c) == c.server.port # 0
ArchitectureCheck_full_needs_templates(c) ==
    c.middleware.templates.enabled <=> c.server.architecture = "Full"
ArchitectureCheck(c) ==
    ~(c.middleware.templates.enabled /\ c.server.architecture = "Api")
StaticDirCheck_skipped(c, fsys) == TRUE
StaticDirCheck(c, fsys) ==
    c.middleware.static_files.enabled => PathExists(c.middleware.static_files.dir, fsys)
TemplateDirCheck_static_dir(c, fsys) ==
    c.middleware.templates.enabled => PathExists(c.middleware.static_files.dir, fsys)
TemplateDirCheck(c, fsys) ==
    c.middleware.templates.enabled => PathExists(c.middleware.templates.dir, fsys)

\* Config::validate, with the checks it evaluated, in the order it evaluated them.
validate_swapped(c, fsys) ==
    IF ~ArchitectureCheck(c)
    THEN [res |-> Err("Config", "templates in api architecture"), evaluated |-> <<"architecture">>]
    ELSE IF ~PortCheck(c)
    THEN [res |-> Err("Config", "port is 0"), evaluated |-> <<"architecture", "port">>]
    ELSE IF ~StaticDirCheck(c, fsys)
    THEN [res |-> Err("Config", "static dir missing"),
          evaluated |-> <<"architecture", "port", "static_dir">>]
    ELSE IF ~TemplateDirCheck(c, fsys)
    THEN [res |-> Err("Config", "template dir missing"),
          evaluated |-> <<"architecture", "port", "static_dir", "template_dir">>]
    ELSE [res |-> Ok(Unit),
          evaluated |-> <<"architecture", "port", "static_dir", "template_dir">>]
validate_no_port(c, fsys) ==
    IF ~ArchitectureCheck(c)
    THEN [res |-> Err("Config", "templates in api architecture"),
          evaluated |-> <<"port", "architecture">>]
    ELSE IF ~StaticDirCheck(c, fsys)
    THEN [res |-> Err("Config", "static dir missing"),
          evaluated |-> <<"port", "architecture", "static_dir">>]
    ELSE IF ~TemplateDirCheck(c, fsys)
    THEN [res |-> Err("Config", "template dir missing"),
          evaluated |-> <<"port", "architecture", "static_dir", "template_dir">>]
    ELSE [res |-> Ok(Unit),
          evaluated |-> <<"port", "architecture", "static_dir", "template_dir">>]
validate(c, fsys) ==
    IF ~PortCheck(c)
    THEN [res |-> Err("Config", "port is 0"), evaluated |-> <<"port">>]
    ELSE IF ~ArchitectureCheck(c)
    THEN [res |-> Err("Config", "templates in api architecture"),
          evaluated |-> <<"port", "architecture">>]
    ELSE IF ~StaticDirCheck(c, fsys)
    THEN [res |-> Err("Config", "static dir missing"),
          evaluated |-> <<"port", "architecture", "static_dir">>]
    ELSE IF ~TemplateDirCheck(c, fsys)
    THEN [res |-> Err("Config", "template dir missing"),
          evaluated |-> <<"port", "architecture", "static_dir", "template_dir">>]
    ELSE [res |-> Ok(Unit),
          evaluated |-> <<"port", "architecture", "static_dir", "template_dir">>]

\* --------------------------------------------------------------------- cors

\* str::parse::<HeaderValue>: every byte visible ASCII or a tab; the bytes are kept.
ParseHeaderValue(s) ==
    IF \A i \in DOMAIN s : IsVisibleAscii(s[i]) \/ s[i] = "\t"
    THEN Ok(s)
    ELSE Err("InvalidHeaderValue", s)
\* str::parse::<Method>: a non-empty token; the bytes are kept.
ParseMethod(s) ==
    IF s # <<>> /\ \A i \in DOMAIN s : IsTchar(s[i])
    THEN Ok(s)
    ELSE Err("InvalidMethod", s)
\* str::parse::<HeaderName>: a non-empty token, stored in lower case.
ParseHeaderName(s) ==
    IF s # <<>> /\ \A i \in DOMAIN s : IsTchar(s[i])
    THEN Ok([i \in DOMAIN s |-> ToAsciiLowercase(s[i])])
    ELSE Err("InvalidHeaderName", s)

\* iter().map(parse).collect::<Result<Vec<_>>>(): the first failure, in list
\* order, or every parsed value.
ParseAs(what, s) ==
    CASE what = "invalid cors origin" -> ParseHeaderValue(s)
      [] what = "invalid http method" -> ParseMethod(s)
      [] what = "invalid http header" -> ParseHeaderName(s)
FirstBad(list, what) ==
    CHOOSE i \in DOMAIN list :
        /\ ~ParseAs(what, list[i]).ok
        /\ \A j \in DOMAIN list : j < i => ParseAs(what, list[j]).ok
CollectParsed(list, what) ==
    IF \E i \in DOMAIN list : ~ParseAs(what, list[i]).ok
    THEN Err("Config", <<what, list[FirstBad(list, what)]>>)
    ELSE Ok([i \in DOMAIN list |-> ParseAs(what, list[i]).val])

\* tower_http's Any, and an exact-match list of parsed values.
AllowAny == [any |-> TRUE, list |-> <<>>]
Exact(parsed) ==
    IF parsed.ok THEN Ok([any |-> FALSE, list |-> parsed.val]) ELSE parsed

AllowOrigin_sole_wildcard(c) ==
    IF c.origins = <<STAR>>
    THEN Ok(AllowAny)
    ELSE Exact(CollectParsed(c.origins, "invalid cors origin"))
AllowOrigin(c) ==
    IF STAR \in Range(c.origins)
    THEN Ok(AllowAny)
    ELSE Exact(CollectParsed(c.origins, "invalid cors origin"))
AllowMethods(c) == CollectParsed(c.methods, "invalid http method")
AllowHeaders(c) ==
    IF STAR \in Range(c.headers)
    THEN Ok(AllowAny)
    ELSE Exact(CollectParsed(c.headers, "invalid http header"))

create_cors_layer(c) ==
    IF ~AllowOrigin(c).ok THEN AllowOrigin(c)
    ELSE IF ~AllowMethods(c).ok THEN AllowMethods(c)
    ELSE IF ~AllowHeaders(c).ok THEN AllowHeaders(c)
    ELSE Ok([layer |-> "Cors",
             allow_origin |-> AllowOrigin(c).val,
             allow_methods |-> AllowMethods(c).val,
             allow_headers |-> AllowHeaders(c).val])

\* ------------------------------------------------------------------- router

\* An axum Router: its routes, each with the layers wrapped around it
\* (innermost first), and the layers wrapped around the fallback.
RouterNew == [routes |-> {}, fallback |-> <<>>]

\* Router::route: the new route carries no layer.
RouterRoute(app, kind, path, service) ==
    [app EXCEPT !.routes =
        @ \cup {[kind |-> kind, path |-> path, service |-> service, layers |-> <<>>]}]

\* Router::layer: wraps every route the router holds at the call, and the fallback.
RouterLayer(app, layer) ==
    [routes |-> {[r EXCEPT !.layers = Append(@, layer)] : r \in app.routes},
     fallback |-> Append(app.fallback, layer)]

TraceLayer == [layer |-> "Trace"]

\* ------------------------------------------------------------- static files

RECURSIVE TrimEndMatches(_, _)
TrimEndMatches(s, c) ==
    IF s # <<>> /\ s[Len(s)] = c THEN TrimEndMatches(SubSeq(s, 1, Len(s) - 1), c) ELSE s

\* The route "{prefix}/*file": the text before the wildcard.
StaticRoute(c) == TrimEndMatches(c.prefix, "/") \o <<"/">>

apply_static_files_unchecked(app, c, fsys) ==
    Ok(RouterRoute(app, "wildcard", StaticRoute(c), [service |-> "ServeDir", dir |-> c.dir]))
apply_static_files(app, c, fsys) ==
    IF ~PathExists(c.dir, fsys)
    THEN Err("Config", "static dir missing")
    ELSE Ok(RouterRoute(app, "wildcard", StaticRoute(c), [service |-> "ServeDir", dir |-> c.dir]))

\* --------------------------------------------------------- middleware manager

MiddlewareManagerNew(c) == [config |-> c, custom_middleware |-> <<>>]
add_custom_middleware_front(mgr, m) ==
    [mgr EXCEPT !.custom_middleware = <<m>> \o @]
add_custom_middleware(mgr, m) ==
    [mgr EXCEPT !.custom_middleware = Append(@, m)]

apply_logging_middleware(mgr, app) == Ok(RouterLayer(app, TraceLayer))

apply_cors_middleware_skip(mgr, app) ==
    IF create_cors_layer(mgr.config.middleware.cors).ok
    THEN Ok(RouterLayer(app, create_cors_layer(mgr.config.middleware.cors).val))
    ELSE Ok(app)
apply_cors_middleware(mgr, app) ==
    IF create_cors_layer(mgr.config.middleware.cors).ok
    THEN Ok(RouterLayer(app, create_cors_layer(mgr.config.middleware.cors).val))
    ELSE create_cors_layer(mgr.config.middleware.cors)

apply_static_files_middleware(mgr, app, fsys) ==
    apply_static_files(app, mgr.config.middleware.static_files, fsys)

\* The custom loop: each descriptor's name is logged; create_layer is not called
\* and the router is left as it is.
CustomLogged(mgr) == [i \in DOMAIN mgr.custom_middleware |-> mgr.custom_middleware[i].name]
CustomCreated(mgr) == <<>>

\* jwt_auth_middleware, with or without the jwt feature: a warning is logged and
\* the request goes to the inner service, whose response is returned; the
\* request's headers are not read. No step of apply_middleware installs it.
jwt_auth_middleware(request, inner_response) ==
    [warned |-> TRUE, forwarded |-> request, res |-> Ok(inner_response)]

AfterLogging_jwt(mgr, app) ==
    IF mgr.config.middleware.jwt.enabled
    THEN Ok(RouterLayer(app, [layer |-> "Jwt"]))
    ELSE IF mgr.config.middleware.logging.requests
    THEN apply_logging_middleware(mgr, app)
    ELSE Ok(app)
AfterLogging(mgr, app) ==
    IF mgr.config.middleware.logging.requests
    THEN apply_logging_middleware(mgr, app)
    ELSE Ok(app)
AfterCors_unconditional(mgr, app) == apply_cors_middleware(mgr, app)
AfterCors(mgr, app) ==
    IF mgr.config.middleware.cors.enabled
    THEN apply_cors_middleware(mgr, app)
    ELSE Ok(app)
AfterStatic(mgr, app, fsys) ==
    IF mgr.config.middleware.static_files.enabled
    THEN apply_static_files_middleware(mgr, app, fsys)
    ELSE Ok(app)

apply_middleware_partial(mgr, app, fsys) ==
    LET r1 == AfterLogging(mgr, app)
        r2 == AfterCors(mgr, r1.val)
        r3 == AfterStatic(mgr, IF r2.ok THEN r2.val ELSE r1.val, fsys)
    IN IF ~r3.ok THEN [res |-> r3, logged |-> <<>>, created |-> <<>>]
       ELSE [res |-> r3, logged |-> CustomLogged(mgr), created |-> CustomCreated(mgr)]
\* MiddlewareManager::apply_middleware: the router or the first error, the custom
\* names logged and the custom layers created.
apply_middleware(mgr, app, fsys) ==
    LET r1 == AfterLogging(mgr, app) IN
    IF ~r1.ok THEN [res |-> r1, logged |-> <<>>, created |-> <<>>]
    ELSE LET r2 == AfterCors(mgr, r1.val) IN
    IF ~r2.ok THEN [res |-> r2, logged |-> <<>>, created |-> <<>>]
    ELSE LET r3 == AfterStatic(mgr, r2.val, fsys) IN
    IF ~r3.ok THEN [res |-> r3, logged |-> <<>>, created |-> <<>>]
    ELSE [res |-> r3, logged |-> CustomLogged(mgr), created |-> CustomCreated(mgr)]

\* ------------------------------------------------------------------ serving

IsPrefixOf(p, s) == Len(p) <= Len(s) /\ SubSeq(s, 1, Len(p)) = p
RouteMatches(r, path) ==
    IF r.kind = "exact" THEN r.path = path
    ELSE IsPrefixOf(r.path, path) /\ Len(path) > Len(r.path)

\* The route a request path is dispatched to: an exact route before a wildcard
\* one, the fallback when no route matches.
Matched(app, path) ==
    IF \E r \in app.routes : r.kind = "exact" /\ RouteMatches(r, path)
    THEN LET r == CHOOSE r \in app.routes : r.kind = "exact" /\ RouteMatches(r, path)
         IN [service |-> r.service, layers |-> r.layers]
    ELSE IF \E r \in app.routes : RouteMatches(r, path)
    THEN LET r == CHOOSE r \in app.routes : RouteMatches(r, path)
         IN [service |-> r.service, layers |-> r.layers]
    ELSE [service |-> [service |-> "NotFound"], layers |-> app.fallback]

Reverse(s) == [i \in DOMAIN s |-> s[Len(s) + 1 - i]]

\* One request through the composed router: the layers around the matched route
\* are entered outermost (last applied) first and left in the opposite order.
Dispatch(app, path) ==
    LET m == Matched(app, path) IN
    [i \in DOMAIN m.layers |-> [ev |-> "enter", by |-> Reverse(m.layers)[i].layer]]
    \o <<[ev |-> "call", by |-> m.service.service]>>
    \o [i \in DOMAIN m.layers |-> [ev |-> "exit", by |-> m.layers[i].layer]]

\* ------------------------------------------------------------ config files

\* A configuration document: whether it is well-formed TOML, the sections it
\* holds, and their values as written (the port as an integer, the architecture
\* as lower-case text).
GoodDoc ==
    [syntax_ok |-> TRUE,
     sections |-> {"server", "middleware"},
     server |-> [host |-> S_loop, port |-> 9999, architecture |-> "api"],
     middleware |->
        [cors |-> [enabled |-> TRUE, origins |-> <<S_http_x>>,
                   methods |-> <<S_GET, S_POST>>, headers |-> <<S_X_Id>>],
         jwt |-> [enabled |-> FALSE, secret |-> "test-secret", expires_in |-> 3600],
         static_files |-> StaticConfigDefault,
         templates |-> TemplateConfigDefault,
         logging |-> [level |-> S_debug, requests |-> TRUE],
         custom |-> EmptyMap]]
Files ==
    [path \in {"good.toml", "garbled.toml", "range.toml", "partial.toml", "templates.toml"} |->
        CASE path = "good.toml" -> GoodDoc
          [] path = "garbled.toml" -> [GoodDoc EXCEPT !.syntax_ok = FALSE]
          [] path = "range.toml" -> [GoodDoc EXCEPT !.server.port = 65536]
          [] path = "partial.toml" -> [GoodDoc EXCEPT !.sections = {"server"}]
          [] path = "templates.toml" ->
                [GoodDoc EXCEPT !.middleware.templates.enabled = TRUE,
                                !.middleware.templates.dir = "views"]]
FilePaths == DOMAIN Files \cup {"absent.toml"}

\* toml::from_str::<Config>: every field is required, the port is a u16 and
\* the architecture one of the lower-case variant names.
FromToml(doc) ==
    IF ~doc.syntax_ok THEN Err("Config", "toml parse failed")
    ELSE IF ~({"server", "middleware"} \subseteq doc.sections)
    THEN Err("Config", "toml parse failed")
    ELSE IF doc.server.port \notin 0..65535 THEN Err("Config", "toml parse failed")
    ELSE IF doc.server.architecture \notin {"api", "full"}
    THEN Err("Config", "toml parse failed")
    ELSE Ok([server |->
                [host |-> doc.server.host,
                 port |-> doc.server.port,
                 architecture |-> IF doc.server.architecture = "api" THEN "Api" ELSE "Full"],
             middleware |-> doc.middleware])

\* Config::from_file
from_file(path) ==
    IF path \notin DOMAIN Files
    THEN Err("Config", "cannot read config file")
    ELSE FromToml(Files[path])

\* ------------------------------------------------------------------ builder

\* WebServerBuilder::new
WebServerBuilderNew ==
    [config |-> ConfigDefault, router |-> None, custom_middleware |-> <<>>]

config_from_file_reset(self, path) ==
    IF from_file(path).ok
    THEN [self EXCEPT !.config = from_file(path).val]
    ELSE [self EXCEPT !.config = ConfigDefault]
config_from_file(self, path) ==
    IF from_file(path).ok
    THEN [self EXCEPT !.config = from_file(path).val]
    ELSE self

config_keeps_server(self, c) == [self EXCEPT !.config.middleware = c.middleware]
config(self, c) == [self EXCEPT !.config = c]

listen(self, host, port) ==
    [self EXCEPT !.config.server.host = host, !.config.server.port = port]

architecture_resets_templates(self, arch_type) ==
    [self EXCEPT !.config.server.architecture = arch_type,
                 !.config.middleware.templates = TemplateConfigDefault]
architecture(self, arch_type) ==
    [self EXCEPT !.config.server.architecture = arch_type]

cors(self, origins) ==
    [self EXCEPT !.config.middleware.cors.enabled = TRUE,
                 !.config.middleware.cors.origins = origins]

static_files(self, dir, prefix) ==
    [self EXCEPT !.config.middleware.static_files =
        [enabled |-> TRUE, dir |-> dir, prefix |-> prefix]]

templates_keeps_extension(self, dir, extension) ==
    IF self.config.server.architecture = "Full"
    THEN [self EXCEPT !.config.middleware.templates.enabled = TRUE,
                      !.config.middleware.templates.dir = dir]
    ELSE self
templates_unguarded(self, dir, extension) ==
    [self EXCEPT !.config.middleware.templates =
        [enabled |-> TRUE, dir |-> dir, extension |-> extension]]
templates(self, dir, extension) ==
    IF self.config.server.architecture = "Full"
    THEN [self EXCEPT !.config.middleware.templates =
            [enabled |-> TRUE, dir |-> dir, extension |-> extension]]
    ELSE self

jwt_auth(self, secret, expires_in) ==
    [self EXCEPT !.config.middleware.jwt =
        [enabled |-> TRUE, secret |-> secret, expires_in |-> expires_in]]

log_level(self, level) ==
    [self EXCEPT !.config.middleware.logging.level = level]

routes(self, router) == [self EXCEPT !.router = Some(router)]

middleware(self, m) ==
    [self EXCEPT !.custom_middleware = Append(@, m)]

\* serde_json::to_value: numbers and strings encode; a map whose keys are not
\* strings does not.
ToJsonValue(value) ==
    CASE value.kind = "int" -> Ok([json |-> "Number", v |-> value.v])
      [] value.kind = "str" -> Ok([json |-> "String", v |-> value.v])
      [] OTHER -> Err("Serialization", "key must be a string")

MapInsert_keep_first(map, key, v) ==
    [k \in DOMAIN map \cup {key} |-> IF k \in DOMAIN map THEN map[k] ELSE v]
\* HashMap::insert
MapInsert(map, key, v) ==
    [k \in DOMAIN map \cup {key} |-> IF k = key THEN v ELSE map[k]]

custom_config(self, key, value) ==
    IF ToJsonValue(value).ok
    THEN [self EXCEPT !.config.middleware.custom =
            MapInsert(@, key, ToJsonValue(value).val)]
    ELSE self

\* ------------------------------------------------------------------ logging

LevelNames ==
    {<<"t", "r", "a", "c", "e">>, S_debug, S_info, <<"w", "a", "r", "n">>,
     <<"e", "r", "r", "o", "r">>, <<"o", "f", "f">>}
IsLevel(s) == [i \in DOMAIN s |-> ToAsciiLowercase(s[i])] \in LevelNames
IsTargetChar(c) == c \in AlphaNumeric \cup {"_", ":", "-"}
IndexOfEq(s) ==
    IF \E i \in DOMAIN s : s[i] = "="
    THEN CHOOSE i \in DOMAIN s : s[i] = "=" /\ \A j \in DOMAIN s : j < i => s[j] # "="
    ELSE 0

\* EnvFilter::try_new on one directive: a level, a target, or target=level.
TryNewFilter(s) ==
    LET eq == IndexOfEq(s)
        target == IF eq = 0 THEN s ELSE SubSeq(s, 1, eq - 1)
        level == IF eq = 0 THEN <<>> ELSE SubSeq(s, eq + 1, Len(s))
    IN IF s = <<>> \/ IsLevel(s) THEN Ok(s)
       ELSE IF target # <<>> /\ (\A i \in DOMAIN target : IsTargetChar(target[i]))
               /\ (level = <<>> \/ IsLevel(level))
       THEN Ok(s)
       ELSE Err("Config", "invalid log level")

\* EnvFilter::try_from_default_env: RUST_LOG must be set and parse.
TryFromDefaultEnv(env) ==
    IF env.some THEN TryNewFilter(env.val) ELSE Err("Config", "RUST_LOG not set")

init_logging_strict(self, env, global) ==
    LET filter == IF TryFromDefaultEnv(env).ok
                  THEN TryFromDefaultEnv(env)
                  ELSE TryNewFilter(self.config.middleware.logging.level)
    IN IF ~filter.ok
       THEN [res |-> Err("Config", "invalid log level"), subscriber |-> global]
       ELSE IF global.some
       THEN [res |-> Err("Config", "subscriber already set"), subscriber |-> global]
       ELSE [res |-> Ok(Unit), subscriber |-> Some(filter.val)]
init_logging_level_first(self, env, global) ==
    LET level == TryNewFilter(self.config.middleware.logging.level)
        filter == IF level.ok /\ TryFromDefaultEnv(env).ok THEN TryFromDefaultEnv(env) ELSE level
    IN IF ~filter.ok
       THEN [res |-> Err("Config", "invalid log level"), subscriber |-> global]
       ELSE [res |-> Ok(Unit),
             subscriber |-> IF global.some THEN global ELSE Some(filter.val)]
\* WebServerBuilder::init_logging: the result, and the global subscriber after
\* try_init (which installs one only when none is installed).
init_logging(self, env, global) ==
    LET filter == IF TryFromDefaultEnv(env).ok
                  THEN TryFromDefaultEnv(env)
                  ELSE TryNewFilter(self.config.middleware.logging.level)
    IN IF ~filter.ok
       THEN [res |-> Err("Config", "invalid log level"), subscriber |-> global]
       ELSE [res |-> Ok(Unit),
             subscriber |-> IF global.some THEN global ELSE Some(filter.val)]

WebServerNew_default_config(app, c) == [app |-> app, config |-> ConfigDefault]
\* WebServer::new
WebServerNew(app, c) == [app |-> app, config |-> c]

\* -------------------------------------------------------------------- state

VARIABLES
    builder,      \* the WebServerBuilder: config, router, custom_middleware
    stderr,       \* the warnings config_from_file printed
    calls,        \* setter calls made on the builder
    pc,           \* "chain", then build()'s position: "init_logging", "apply", "built", "failed"
    fs,           \* the directories present on disk
    rust_log,     \* the RUST_LOG environment variable
    subscriber,   \* the process-wide tracing subscriber
    evaluated,    \* the checks validate() evaluated
    manager,      \* the MiddlewareManager build() made
    logged,       \* custom middleware names logged by apply_middleware
    created,      \* custom middleware whose create_layer was called
    result,       \* what build() returned
    server,       \* the WebServer build() returned
    trace,        \* the layers and service the last request went through
    validated_fs, \* the directories present when validate() ran
    builds,       \* builders made in this process so far
    bind_addr,    \* run(): the address text chosen
    attempts,     \* run(): the socket addresses TcpListener::bind was called with
    listener,     \* run(): the bound listener
    in_use,       \* the socket addresses other processes hold
    run_result    \* what run() returned

vars ==
    <<builder, stderr, calls, pc, fs, rust_log, subscriber, evaluated, manager, logged,
      created, result, server, trace, validated_fs, builds, bind_addr, attempts,
      listener, in_use, run_result>>
runvars == <<bind_addr, attempts, listener, in_use, run_result>>

\* ------------------------------------------------------------------- inputs

Hosts == {S_loop, S_localhost}
Ports == {0, 8080}
Architectures == {"Api", "Full"}
ExistingDirs == {"public", "views"}
StaticDirChoices == {"public", "missing"}
TemplateDirChoices == {"views", "missing"}
Descriptors == {[name |-> "m1"], [name |-> "m2"]}

S_t == <<"/", "t">>
S_u == <<"/", "u">>
BaseRouters ==
    {RouterRoute(RouterNew, "exact", S_t, [service |-> "handler"]),
     RouterRoute(RouterNew, "exact", S_u, [service |-> "handler"])}
RequestPaths == {S_t, S_s \o <<"/", "f">>}

ConfigChoices ==
    {[ConfigDefault EXCEPT !.middleware.templates.enabled = TRUE,
                           !.middleware.templates.dir = "views"],
     [ConfigDefault EXCEPT !.middleware.cors.methods = <<S_G_T>>],
     [ConfigDefault EXCEPT !.middleware.cors.headers = <<S_X_Id, S_X_sp>>],
     [ConfigDefault EXCEPT !.middleware.cors.enabled = FALSE,
                           !.middleware.logging.requests = FALSE]}

\* --------------------------------------------------------------------- init

Init ==
    /\ builder = WebServerBuilderNew
    /\ stderr = <<>>
    /\ calls = 0
    /\ pc = "chain"
    /\ fs = ExistingDirs
    /\ rust_log \in {None, Some(S_debug)}
    /\ subscriber = None
    /\ evaluated = <<>>
    /\ manager = None
    /\ logged = <<>>
    /\ created = <<>>
    /\ result = None
    /\ server = None
    /\ trace = <<>>
    /\ validated_fs = {}
    /\ builds = 1
    /\ bind_addr = None
    /\ attempts = <<>>
    /\ listener = None
    /\ in_use = {}
    /\ run_result = None

\* ------------------------------------------------------------------ setters

Setter(next) ==
    /\ pc = "chain"
    /\ calls < MaxSetterCalls
    /\ builder' = next
    /\ calls' = calls + 1
    /\ UNCHANGED <<pc, fs, rust_log, subscriber, evaluated, manager, logged,
                   created, result, server, trace, validated_fs, builds, runvars>>

\* config_from_file: on failure the error is printed and the chain goes on.
ConfigFromFile(path) ==
    /\ Setter(config_from_file(builder, path))
    /\ stderr' = IF from_file(path).ok THEN stderr ELSE Append(stderr, from_file(path).msg)
SetConfig(c) == Setter(config(builder, c)) /\ UNCHANGED stderr
Listen(host, port) == Setter(listen(builder, host, port)) /\ UNCHANGED stderr
Architecture(a) == Setter(architecture(builder, a)) /\ UNCHANGED stderr
Cors(origins) == Setter(cors(builder, origins)) /\ UNCHANGED stderr
StaticFiles(dir, prefix) == Setter(static_files(builder, dir, prefix)) /\ UNCHANGED stderr
Templates(dir, ext) == Setter(templates(builder, dir, ext)) /\ UNCHANGED stderr
JwtAuth(secret, exp) == Setter(jwt_auth(builder, secret, exp)) /\ UNCHANGED stderr
LogLevel(level) == Setter(log_level(builder, level)) /\ UNCHANGED stderr
Routes(r) == Setter(routes(builder, r)) /\ UNCHANGED stderr
Middleware(m) == Setter(middleware(builder, m)) /\ UNCHANGED stderr
CustomConfig(key, value) == Setter(custom_config(builder, key, value)) /\ UNCHANGED stderr

\* -------------------------------------------------------------------- build

\* build(), first statement: self.config.validate()?
BuildValidate ==
    /\ pc = "chain"
    /\ evaluated' = validate(builder.config, fs).evaluated
    /\ validated_fs' = fs
    /\ IF validate(builder.config, fs).res.ok
       THEN pc' = "init_logging" /\ result' = result
       ELSE pc' = "failed" /\ result' = Some(validate(builder.config, fs).res)
    /\ UNCHANGED <<builder, stderr, calls, fs, rust_log, subscriber, manager, logged,
                   created, server, trace, builds, runvars>>

\* build(), second statement: self.init_logging()?
BuildInitLogging ==
    /\ pc = "init_logging"
    /\ subscriber' = init_logging(builder, rust_log, subscriber).subscriber
    /\ IF init_logging(builder, rust_log, subscriber).res.ok
       THEN pc' = "apply" /\ result' = result
       ELSE pc' = "failed"
            /\ result' = Some(init_logging(builder, rust_log, subscriber).res)
    /\ UNCHANGED <<builder, stderr, calls, fs, rust_log, evaluated, manager, logged,
                   created, server, trace, validated_fs, builds, runvars>>

RECURSIVE AddAll(_, _)
AddAll(mgr, list) ==
    IF list = <<>> THEN mgr
    ELSE AddAll(add_custom_middleware(mgr, Head(list)), Tail(list))

\* build(): the manager made from a clone of the config, with the builder's
\* custom middleware moved into it.
BuildManager(self) == AddAll(MiddlewareManagerNew(self.config), self.custom_middleware)
BaseRouter_always_default(self) == RouterNew
\* self.router.unwrap_or_default()
BaseRouter(self) == IF self.router.some THEN self.router.val ELSE RouterNew

\* build(), the rest: compose the router and construct the WebServer.
BuildApply ==
    /\ pc = "apply"
    /\ manager' = Some(BuildManager(builder))
    /\ LET applied == apply_middleware(BuildManager(builder), BaseRouter(builder), fs)
       IN /\ logged' = applied.logged
          /\ created' = applied.created
          /\ IF applied.res.ok
             THEN /\ pc' = "built"
                  /\ server' = Some(WebServerNew(applied.res.val, builder.config))
                  /\ result' = Some(Ok("WebServer"))
             ELSE /\ pc' = "failed"
                  /\ server' = server
                  /\ result' = Some(applied.res)
    /\ UNCHANGED <<builder, stderr, calls, fs, rust_log, subscriber, evaluated, trace,
                   validated_fs, builds, runvars>>

\* ------------------------------------------------------------- environment

\* Another process removes a directory while build() runs. Nothing reads the
\* disk before build() or after it: a directory already gone when build() starts
\* is the input "missing".
RemoveDir(d) ==
    /\ pc \in {"init_logging", "apply"}
    /\ d \in fs
    /\ fs' = fs \ {d}
    /\ UNCHANGED <<builder, stderr, calls, pc, rust_log, subscriber, evaluated, manager,
                   logged, created, result, server, trace, validated_fs, builds, runvars>>

\* One request served by the composed router.
Request(path) ==
    /\ pc = "built"
    /\ trace' = Dispatch(server.val.app, path)
    /\ UNCHANGED <<builder, stderr, calls, pc, fs, rust_log, subscriber, evaluated,
                   manager, logged, created, result, server, validated_fs, builds, runvars>>

\* --------------------------------------------------------------------- next

Next ==
    \/ \E path \in FilePaths : ConfigFromFile(path)
    \/ \E c \in ConfigChoices : SetConfig(c)
    \/ \E h \in Hosts, p \in Ports : Listen(h, p)
    \/ \E a \in Architectures : Architecture(a)
    \/ \E o \in {<<S_http_x>>, <<S_ctl>>, <<STAR, S_ctl>>} : Cors(o)
    \/ \E d \in StaticDirChoices, p \in {S_s, S_s_slash} : StaticFiles(d, p)
    \/ \E d \in TemplateDirChoices : Templates(d, "tera")
    \/ JwtAuth("test-secret", 60)
    \/ \E l \in {S_debug, S_x_loud} : LogLevel(l)
    \/ \E r \in BaseRouters : Routes(r)
    \/ \E m \in Descriptors : Middleware(m)
    \/ \E v \in {[kind |-> "int", v |-> 1], [kind |-> "map", v |-> 1]} : CustomConfig("k", v)
    \/ BuildValidate
    \/ BuildInitLogging
    \/ BuildApply
    \/ \E d \in ExistingDirs : RemoveDir(d)
    \/ \E path \in RequestPaths : Request(path)

Spec == Init /\ [][Next]_vars

\* ------------------------------------------------- specifications on inputs

\* build() and the requests that follow, on a builder handed a whole Config.
InitWith(c) ==
    /\ builder = config(WebServerBuilderNew, c)
    /\ stderr = <<>>
    /\ calls = 1
    /\ pc = "chain"
    /\ fs = ExistingDirs
    /\ subscriber = None
    /\ evaluated = <<>>
    /\ manager = None
    /\ logged = <<>>
    /\ created = <<>>
    /\ result = None
    /\ server = None
    /\ trace = <<>>
    /\ validated_fs = {}
    /\ builds = 1
    /\ bind_addr = None
    /\ attempts = <<>>
    /\ listener = None
    /\ in_use = {}
    /\ run_result = None

ValidateConfigs ==
    {[ConfigDefault EXCEPT
        !.server.port = p,
        !.server.architecture = a,
        !.middleware.static_files.enabled = se,
        !.middleware.static_files.dir = sd,
        !.middleware.templates.enabled = te,
        !.middleware.templates.dir = td] :
     p \in {0, 1, 65535}, a \in Architectures, se \in BOOLEAN, sd \in StaticDirChoices,
     te \in BOOLEAN, td \in TemplateDirChoices}

InitValidate ==
    /\ rust_log \in {None, Some(S_debug)}
    /\ \E c \in ValidateConfigs : InitWith(c)

NextBuild ==
    \/ BuildValidate
    \/ BuildInitLogging
    \/ BuildApply
    \/ \E d \in ExistingDirs : RemoveDir(d)
    \/ \E path \in RequestPaths : Request(path)

SpecValidate == InitValidate /\ [][NextBuild]_vars

Lists(pool) == UNION {[1..n -> pool] : n \in 0..MaxListLen}
CorsConfigs ==
    {[ConfigDefault EXCEPT
        !.middleware.cors =
            [enabled |-> e, origins |-> o, methods |-> m, headers |-> h]] :
     e \in BOOLEAN, o \in Lists({STAR, S_http_x, S_ctl}), m \in Lists({S_GET, S_G_T}),
     h \in Lists({STAR, S_X_Id, S_X_sp})}

InitCors ==
    /\ rust_log = None
    /\ \E c \in CorsConfigs : InitWith(c)

NextCors ==
    \/ BuildValidate
    \/ BuildInitLogging
    \/ BuildApply
    \/ \E path \in RequestPaths : Request(path)

SpecCors == InitCors /\ [][NextCors]_vars

\* ----------------------------------------------------------------- running

DigitChars == <<"0", "1", "2", "3", "4", "5", "6", "7", "8", "9">>
\* Display for u16: decimal, no sign, no leading zero.
RECURSIVE U16ToString(_)
U16ToString(n) ==
    IF n < 10 THEN <<DigitChars[n + 1]>>
    ELSE U16ToString(n \div 10) \o <<DigitChars[(n % 10) + 1]>>

server_address_port_first(c) == U16ToString(c.server.port) \o <<":">> \o c.server.host
\* Config::server_address: format!("{}:{}", host, port)
server_address(c) == c.server.host \o <<":">> \o U16ToString(c.server.port)

IsDigits(s) == s # <<>> /\ \A i \in DOMAIN s : s[i] \in Digits
RECURSIVE DecimalValue(_)
DecimalValue(s) ==
    IF s = <<>> THEN 0
    ELSE 10 * DecimalValue(SubSeq(s, 1, Len(s) - 1)) 
         + (CHOOSE d \in 0..9 : DigitChars[d + 1] = s[Len(s)])
LastIndexOf(s, c) ==
    IF \E i \in DOMAIN s : s[i] = c
    THEN CHOOSE i \in DOMAIN s : s[i] = c /\ \A j \in DOMAIN s : j > i => s[j] # c
    ELSE 0
RECURSIVE SplitOn(_, _)
SplitOn(s, c) ==
    IF LastIndexOf(s, c) = 0 THEN <<s>>
    ELSE Append(SplitOn(SubSeq(s, 1, LastIndexOf(s, c) - 1), c),
                SubSeq(s, LastIndexOf(s, c) + 1, Len(s)))
\* str::parse::<SocketAddr> on an IPv4 form, "a.b.c.d:port"; a host name is not
\* resolved. (No string of the model holds a bracket, so the IPv6 form
\* "[addr]:port" does not arise.)
ParseSocketAddr(s) ==
    LET i == LastIndexOf(s, ":")
        ip == SplitOn(SubSeq(s, 1, i - 1), ".")
        port == SubSeq(s, i + 1, Len(s))
        \* One octet of an IPv4 literal: one to three digits, no leading zero,
        \* at most 255.
        IsOctet(o) ==
            /\ IsDigits(o)
            /\ Len(o) <= 3
            /\ Len(o) > 1 => o[1] # "0"
            /\ DecimalValue(o) <= 255
    IN IF /\ i > 0
          /\ Len(ip) = 4
          /\ \A k \in DOMAIN ip : IsOctet(ip[k])
          /\ IsDigits(port)
          /\ DecimalValue(port) <= 65535
       THEN Ok([ip |-> [k \in DOMAIN ip |-> DecimalValue(ip[k])],
                port |-> DecimalValue(port)])
       ELSE Err("AddrParseError", s)

resolve_default_only(addr, default_addr) == default_addr
\* run(): addr.unwrap_or(&default_addr)
resolve(addr, default_addr) == IF addr.some THEN addr.val ELSE default_addr

parse_bind_addr_resolving(text) ==
    IF ParseSocketAddr(text).ok
    THEN ParseSocketAddr(text)
    ELSE Ok([ip |-> <<127, 0, 0, 1>>, port |-> 0])
\* run(): bind_addr.parse().map_err(Error::ServerStart)
parse_bind_addr(text) ==
    IF ParseSocketAddr(text).ok
    THEN ParseSocketAddr(text)
    ELSE Err("ServerStart", "invalid address")

\* run(): TcpListener::bind(socket_addr).await.map_err(Error::ServerStart)
bind(socket_addr, used) ==
    IF socket_addr \in used THEN Err("ServerStart", "cannot bind") ELSE Ok(socket_addr)

\* run(), up to the choice of the address.
RunResolve(addr) ==
    /\ pc = "built"
    /\ bind_addr' = Some(resolve(addr, server_address(server.val.config)))
    /\ pc' = "run_parse"
    /\ UNCHANGED <<builder, stderr, calls, fs, rust_log, subscriber, evaluated, manager,
                   logged, created, result, server, trace, validated_fs, builds,
                   attempts, listener, in_use, run_result>>

\* serve(): self.run(None)
Serve == RunResolve(None)

\* run(): the address is parsed.
RunParse ==
    /\ pc = "run_parse"
    /\ IF parse_bind_addr(bind_addr.val).ok
       THEN pc' = "run_bind" /\ run_result' = run_result
       ELSE pc' = "run_failed" /\ run_result' = Some(parse_bind_addr(bind_addr.val))
    /\ UNCHANGED <<builder, stderr, calls, fs, rust_log, subscriber, evaluated, manager,
                   logged, created, result, server, trace, validated_fs, builds,
                   bind_addr, attempts, listener, in_use>>

\* run(): the listener is bound.
RunBind ==
    /\ pc = "run_bind"
    /\ LET socket_addr == parse_bind_addr(bind_addr.val).val IN
        /\ attempts' = Append(attempts, socket_addr)
        /\ IF bind(socket_addr, in_use).ok
           THEN /\ pc' = "serving"
                /\ listener' = Some(socket_addr)
                /\ run_result' = run_result
           ELSE /\ pc' = "run_failed"
                /\ listener' = listener
                /\ run_result' = Some(bind(socket_addr, in_use))
    /\ UNCHANGED <<builder, stderr, calls, fs, rust_log, subscriber, evaluated, manager,
                   logged, created, result, server, trace, validated_fs, builds,
                   bind_addr, in_use>>

\* run(): axum::serve dispatches one accepted request.
Accept(path) ==
    /\ pc = "serving"
    /\ trace' = Dispatch(server.val.app, path)
    /\ UNCHANGED <<builder, stderr, calls, pc, fs, rust_log, subscriber, evaluated,
                   manager, logged, created, result, server, validated_fs, builds, runvars>>

\* run(): axum::serve returns an I/O error.
RunIoError ==
    /\ pc = "serving"
    /\ pc' = "run_failed"
    /\ listener' = None
    /\ run_result' = Some(Err("ServerStart", "runtime error"))
    /\ UNCHANGED <<builder, stderr, calls, fs, rust_log, subscriber, evaluated, manager,
                   logged, created, result, server, trace, validated_fs, builds,
                   bind_addr, attempts, in_use>>

S_loop_9000 == S_loop \o <<":", "9", "0", "0", "0">>
RunAddrs ==
    {None, Some(S_loop_9000), Some(S_localhost \o <<":", "9", "0", "0", "0">>),
     Some(S_loop)}
RunPorts == {0, 1, 8080, 65535}
RunConfigs ==
    {ConfigDefault,
     [ConfigDefault EXCEPT !.server.port = 0],
     [ConfigDefault EXCEPT !.middleware.templates.enabled = TRUE,
                           !.middleware.templates.dir = "views"],
     [ConfigDefault EXCEPT !.middleware.static_files.enabled = TRUE,
                           !.middleware.static_files.dir = "missing"],
     [ConfigDefault EXCEPT !.middleware.static_files.enabled = TRUE,
                           !.middleware.static_files.dir = "public",
                           !.middleware.static_files.prefix = S_s],
     [ConfigDefault EXCEPT !.middleware.cors.origins = <<S_ctl>>],
     [ConfigDefault EXCEPT !.middleware.cors.methods = <<S_G_T>>],
     [ConfigDefault EXCEPT !.middleware.cors.headers = <<S_X_sp>>]}

InitRun ==
    /\ builder \in {config(WebServerBuilderNew, c) : c \in RunConfigs}
    /\ stderr = <<>>
    /\ calls = 1
    /\ pc = "chain"
    /\ fs = ExistingDirs
    /\ rust_log = None
    /\ subscriber = None
    /\ evaluated = <<>>
    /\ manager = None
    /\ logged = <<>>
    /\ created = <<>>
    /\ result = None
    /\ server = None
    /\ trace = <<>>
    /\ validated_fs = {}
    /\ builds = 1
    /\ bind_addr = None
    /\ attempts = <<>>
    /\ listener = None
    /\ in_use \in {{}, {[ip |-> <<127, 0, 0, 1>>, port |-> 8080]},
                 {[ip |-> <<127, 0, 0, 1>>, port |-> 9000]}}
    /\ run_result = None

NextRun ==
    \/ \E h \in Hosts \cup {<<>>}, p \in RunPorts : Listen(h, p)
    \/ BuildValidate
    \/ BuildInitLogging
    \/ BuildApply
    \/ \E addr \in RunAddrs : RunResolve(addr)
    \/ Serve
    \/ RunParse
    \/ RunBind
    \/ \E path \in RequestPaths : Accept(path)
    \/ RunIoError

SpecRun == InitRun /\ [][NextRun]_vars

\* ------------------------------------------------- several builds, one process

\* The process makes another WebServerBuilder after a build() returned; the
\* global subscriber, the environment and the disk stay as they are.
NewBuilder(c) ==
    /\ pc \in {"built", "failed"}
    /\ builds < MaxBuilds
    /\ builds' = builds + 1
    /\ builder' = config(WebServerBuilderNew, c)
    /\ calls' = 1
    /\ pc' = "chain"
    /\ evaluated' = <<>>
    /\ manager' = None
    /\ logged' = <<>>
    /\ created' = <<>>
    /\ result' = None
    /\ server' = None
    /\ trace' = <<>>
    /\ validated_fs' = {}
    /\ UNCHANGED <<stderr, fs, rust_log, subscriber, runvars>>

LogConfigs ==
    {[ConfigDefault EXCEPT !.middleware.logging.level = l, !.server.port = p] :
     l \in {S_info, S_debug, S_x_loud}, p \in {0, 3000}}

InitLogging ==
    /\ rust_log \in {None, Some(S_debug), Some(S_x_loud)}
    /\ \E c \in LogConfigs : InitWith(c)

NextLogging ==
    \/ BuildValidate
    \/ BuildInitLogging
    \/ BuildApply
    \/ \E c \in LogConfigs : NewBuilder(c)

SpecLogging == InitLogging /\ [][NextLogging]_vars

\* -------------------------------------------------------- custom parameters

CustomKeys == {"k", "j"}
CustomInputs ==
    {[kind |-> "int", v |-> 1], [kind |-> "int", v |-> 2], [kind |-> "map", v |-> 1]}

InitCustom ==
    /\ rust_log \in {None, Some(S_debug)}
    /\ \E c \in {ConfigDefault, [ConfigDefault EXCEPT !.server.port = 0]} : InitWith(c)

NextCustom ==
    \/ \E key \in CustomKeys, value \in CustomInputs : CustomConfig(key, value)
    \/ BuildValidate
    \/ BuildInitLogging
    \/ BuildApply

SpecCustom == InitCustom /\ [][NextCustom]_vars

\* ------------------------------------------------- the three built-in steps

\* build() on every combination of the three flags, with a section that would
\* fail (an origin that does not parse, a directory that is not there) behind
\* each flag, with or without a router given to routes(), custom middleware,
\* JWT settings and the Full architecture.
InitApply ==
    /\ rust_log = None
    /\ \E lr \in BOOLEAN, ce \in BOOLEAN, o \in {<<STAR>>, <<S_ctl>>},
          se \in BOOLEAN, sd \in StaticDirChoices :
            InitWith([ConfigDefault EXCEPT
                        !.middleware.logging.requests = lr,
                        !.middleware.cors.enabled = ce,
                        !.middleware.cors.origins = o,
                        !.middleware.static_files.enabled = se,
                        !.middleware.static_files.dir = sd,
                        !.middleware.static_files.prefix = S_s])

NextApply ==
    \/ \E r \in BaseRouters : Routes(r)
    \/ \E m \in Descriptors : Middleware(m)
    \/ \E a \in Architectures : Architecture(a)
    \/ JwtAuth("test-secret", 60)
    \/ BuildValidate
    \/ BuildInitLogging
    \/ BuildApply
    \/ \E d \in ExistingDirs : RemoveDir(d)
    \/ \E path \in RequestPaths : Request(path)

SpecApply == InitApply /\ [][NextApply]_vars

\* ------------------------------------------------------------------- claims

\* Where an event stands in the last request's trace; 0 when it is not there.
Position(ev, by) ==
    IF \E i \in DOMAIN trace : trace[i] = [ev |-> ev, by |-> by]
    THEN CHOOSE i \in DOMAIN trace : trace[i] = [ev |-> ev, by |-> by]
    ELSE 0
Served(service) == Position("call", service) # 0
BuiltConfig == server.val.config

\* C1: with request logging and CORS both enabled, every request to a route of
\* the base router enters the logging layer before the CORS layer and leaves it
\* after the CORS layer.
C1_LoggingOutermost ==
    (/\ pc = "built"
     /\ Served("handler")
     /\ BuiltConfig.middleware.logging.requests
     /\ BuiltConfig.middleware.cors.enabled)
    => /\ Position("enter", "Trace") # 0
       /\ Position("enter", "Cors") # 0
       /\ Position("enter", "Trace") < Position("enter", "Cors")
       /\ Position("exit", "Cors") < Position("exit", "Trace")

\* C2: with CORS and static files both enabled, a request that reaches the
\* static-file service has passed through the CORS layer first, and through the
\* logging layer when request logging is enabled.
C2_StaticBehindCors ==
    (/\ pc = "built"
     /\ Served("ServeDir")
     /\ BuiltConfig.middleware.cors.enabled)
    => /\ Position("enter", "Cors") # 0
       /\ Position("enter", "Cors") < Position("call", "ServeDir")
       /\ BuiltConfig.middleware.logging.requests =>
            /\ Position("enter", "Trace") # 0
            /\ Position("enter", "Trace") < Position("call", "ServeDir")

\* C3: a successful build() calls create_layer once for every registered custom
\* middleware, in registration order.
C3_CustomLayersCreated ==
    pc = "built" =>
        created = [i \in DOMAIN builder.custom_middleware |->
                      builder.custom_middleware[i].name]

\* The step of build() that validates, and the step that composes the router.
ValidateStep == pc = "chain" /\ pc' # "chain"
ApplyStep == pc = "apply" /\ pc' # "apply"

IsErr(r) == r.some /\ ~r.val.ok

\* Every enabled middleware step succeeds on this config and disk.
MiddlewareStepsOk(c, fsys) ==
    /\ c.middleware.cors.enabled => create_cors_layer(c.middleware.cors).ok
    /\ c.middleware.static_files.enabled =>
            PathExists(c.middleware.static_files.dir, fsys)

\* C4: build() never produces a partial server: a failing validate() or a
\* failing middleware step makes build() return that error with no WebServer; a
\* WebServer exists only after validation and every enabled step succeeded.
C4_NoPartialServer ==
    /\ [](server.some => pc = "built" /\ result = Some(Ok("WebServer")))
    /\ [](pc = "failed" => ~server.some /\ IsErr(result))
    /\ [][/\ ValidateStep /\ ~validate(builder.config, fs).res.ok =>
                /\ pc' = "failed"
                /\ ~server'.some
                /\ result' = Some(validate(builder.config, fs).res)
          /\ ApplyStep =>
                IF MiddlewareStepsOk(builder.config, fs)
                THEN pc' = "built" /\ server'.some
                ELSE pc' = "failed" /\ ~server'.some /\ IsErr(result')
          /\ (server'.some /\ ~server.some) => ApplyStep]_vars
C4_Witness ==
    /\ pc = "failed"
    /\ manager.some
    /\ ~server.some
    /\ result.val.msg[1] = "invalid http method"

NoOtherViolation(c, fsys) ==
    /\ \/ ~c.middleware.templates.enabled
       \/ /\ c.server.architecture = "Full"
          /\ PathExists(c.middleware.templates.dir, fsys)
    /\ \/ ~c.middleware.static_files.enabled
       \/ PathExists(c.middleware.static_files.dir, fsys)

\* C5: validate() fails with the port error whenever the port is 0, and
\* succeeds for every port in 1..65535 when nothing else is violated.
C5_PortRule ==
    [][ValidateStep =>
        /\ builder.config.server.port = 0 =>
                pc' = "failed" /\ result' = Some(Err("Config", "port is 0"))
        /\ (/\ builder.config.server.port \in 1..65535
            /\ NoOtherViolation(builder.config, fs)) =>
                pc' = "init_logging" /\ result' = None]_vars
C5_Witness ==
    /\ builder.config.server.port = 65535
    /\ builder.config.middleware.static_files.enabled
    /\ builder.config.middleware.templates.enabled
    /\ pc = "init_logging"

CheckOrder == <<"port", "architecture", "static_dir", "template_dir">>
CheckError ==
    <<Err("Config", "port is 0"),
      Err("Config", "templates in api architecture"),
      Err("Config", "static dir missing"),
      Err("Config", "template dir missing")>>
Violates(c, fsys, k) ==
    CASE k = 1 -> c.server.port = 0
      [] k = 2 -> c.middleware.templates.enabled /\ c.server.architecture = "Api"
      [] k = 3 -> /\ c.middleware.static_files.enabled
                  /\ ~PathExists(c.middleware.static_files.dir, fsys)
      [] k = 4 -> /\ c.middleware.templates.enabled
                  /\ ~PathExists(c.middleware.templates.dir, fsys)
Violated(c, fsys) == {k \in DOMAIN CheckOrder : Violates(c, fsys, k)}
Lowest(ks) == CHOOSE k \in ks : \A j \in ks : k <= j

\* C6: validate() evaluates port, architecture, static dir, template dir in that
\* order, reports the lowest-numbered violated check and evaluates none after it.
C6_FirstFailureWins ==
    [][ValidateStep =>
        IF Violated(builder.config, fs) = {}
        THEN evaluated' = CheckOrder /\ pc' = "init_logging"
        ELSE /\ evaluated' = SubSeq(CheckOrder, 1, Lowest(Violated(builder.config, fs)))
             /\ result' = Some(CheckError[Lowest(Violated(builder.config, fs))])
             /\ pc' = "failed"]_vars
C6_Witness ==
    /\ Cardinality(Violated(builder.config, fs)) = 3
    /\ builder.config.server.port # 0
    /\ pc = "failed"
    /\ evaluated = <<"port", "architecture">>

TemplatesNeedFull(b) ==
    b.config.middleware.templates.enabled => b.config.server.architecture = "Full"

\* C7 as stated: in every Builder state reachable from new() by any sequence of
\* setters, templates.enabled implies architecture = Full.
C7_TemplatesImplyFull == TemplatesNeedFull(builder)

\* C7 as amended: only architecture(Api), config(c) and a successful
\* config_from_file can take a Builder from a state where templates.enabled
\* implies architecture = Full to one where it does not; every other setter
\* keeps it, and build() does not get past validate() without it.
C7_OnlyThreeSettersBreakIt ==
    /\ [](pc \in {"init_logging", "apply", "built"} => TemplatesNeedFull(builder))
    /\ [][(TemplatesNeedFull(builder) /\ ~TemplatesNeedFull(builder')) =>
            \/ Architecture("Api")
            \/ \E c \in ConfigChoices : SetConfig(c)
            \/ \E path \in FilePaths : from_file(path).ok /\ ConfigFromFile(path)]_vars
C7_Witness ==
    /\ pc = "built"
    /\ BuiltConfig.middleware.templates.enabled
    /\ BuiltConfig.middleware.templates.extension = "tera"
    /\ BuiltConfig.server.architecture = "Full"

SameButTemplates(b1, b2) ==
    /\ b2.config.server = b1.config.server
    /\ b2.config.middleware.cors = b1.config.middleware.cors
    /\ b2.config.middleware.jwt = b1.config.middleware.jwt
    /\ b2.config.middleware.static_files = b1.config.middleware.static_files
    /\ b2.config.middleware.logging = b1.config.middleware.logging
    /\ b2.config.middleware.custom = b1.config.middleware.custom
    /\ b2.router = b1.router
    /\ b2.custom_middleware = b1.custom_middleware

\* C8: templates(dir, ext) changes nothing while the architecture is Api; under
\* Full it sets enabled, dir and extension and nothing else; a later
\* architecture(Full) leaves the template settings as they were.
C8_TemplatesSetter ==
    [][/\ \A d \in TemplateDirChoices :
            Templates(d, "tera") =>
                IF builder.config.server.architecture = "Api"
                THEN builder' = builder
                ELSE /\ builder'.config.middleware.templates =
                            [enabled |-> TRUE, dir |-> d, extension |-> "tera"]
                     /\ SameButTemplates(builder, builder')
       /\ Architecture("Full") =>
            builder'.config.middleware.templates = builder.config.middleware.templates]_vars
C8_Witness ==
    /\ pc = "chain"
    /\ builder.config.server.architecture = "Full"
    /\ builder.config.middleware.templates =
            [enabled |-> TRUE, dir |-> "missing", extension |-> "tera"]

\* The file can be read and its document decodes to a Config.
Loads(path) ==
    /\ path \in DOMAIN Files
    /\ Files[path].syntax_ok
    /\ {"server", "middleware"} \subseteq Files[path].sections
    /\ Files[path].server.port \in 0..65535
    /\ Files[path].server.architecture \in {"api", "full"}

SomeBad(list, what) == \E i \in DOMAIN list : ~ParseAs(what, list[i]).ok
AnyInvalid(c) ==
    \/ SomeBad(c.origins, "invalid cors origin")
    \/ SomeBad(c.methods, "invalid http method")
    \/ SomeBad(c.headers, "invalid http header")
ParsedInvalid(c) ==
    \/ STAR \notin Range(c.origins) /\ SomeBad(c.origins, "invalid cors origin")
    \/ SomeBad(c.methods, "invalid http method")
    \/ STAR \notin Range(c.headers) /\ SomeBad(c.headers, "invalid http header")
CorsFailsBuild ==
    /\ ~server.some
    /\ pc # "built"
    /\ manager.some => pc = "failed" /\ IsErr(result)

\* C10 as stated: with CORS enabled, any origin, method or header string that
\* does not parse makes create_cors_layer and build() fail, whatever the lists.
C10_AnyInvalidFailsBuild ==
    (builder.config.middleware.cors.enabled /\ AnyInvalid(builder.config.middleware.cors))
    => CorsFailsBuild

\* C10 as amended: with CORS enabled, create_cors_layer and build() fail exactly
\* when a method string does not parse, or an origin string does not parse and
\* the origins list holds no "*", or a header string does not parse and the
\* headers list holds no "*"; the layer is never skipped.
C10_ParsedInvalidFailsBuild ==
    builder.config.middleware.cors.enabled =>
        IF ParsedInvalid(builder.config.middleware.cors)
        THEN ~create_cors_layer(builder.config.middleware.cors).ok /\ CorsFailsBuild
        ELSE /\ create_cors_layer(builder.config.middleware.cors).ok
             /\ server.some =>
                    \A r \in server.val.app.routes :
                        r.kind = "exact" => \E i \in DOMAIN r.layers : r.layers[i].layer = "Cors"
C10_Witness ==
    /\ builder.config.middleware.cors.enabled
    /\ STAR \in Range(builder.config.middleware.cors.headers)
    /\ SomeBad(builder.config.middleware.cors.headers, "invalid http header")
    /\ pc = "failed"
    /\ manager.some
    /\ result.val.msg[1] = "invalid cors origin"

\* The CORS layer wrapped around the built router's fallback.
BuiltCorsLayers ==
    {server.val.app.fallback[i] : i \in {j \in DOMAIN server.val.app.fallback :
                                            server.val.app.fallback[j].layer = "Cors"}}

\* C11: the built CORS layer allows any origin exactly when the origins list
\* holds "*", whatever else it holds, and otherwise allows exactly the configured
\* origins; the header policy follows the same rule on the headers list alone.
C11_WildcardWins ==
    (pc = "built" /\ BuiltConfig.middleware.cors.enabled) =>
        /\ Cardinality(BuiltCorsLayers) = 1
        /\ \A l \in BuiltCorsLayers :
            /\ l.allow_origin.any <=> STAR \in Range(BuiltConfig.middleware.cors.origins)
            /\ ~l.allow_origin.any => l.allow_origin.list = BuiltConfig.middleware.cors.origins
            /\ l.allow_headers.any <=> STAR \in Range(BuiltConfig.middleware.cors.headers)
            /\ ~l.allow_headers.any =>
                    l.allow_headers.list =
                        [i \in DOMAIN BuiltConfig.middleware.cors.headers |->
                            [k \in DOMAIN BuiltConfig.middleware.cors.headers[i] |->
                                ToAsciiLowercase(BuiltConfig.middleware.cors.headers[i][k])]]
C11_Witness ==
    /\ pc = "built"
    /\ BuiltConfig.middleware.cors.enabled
    /\ BuiltConfig.middleware.cors.origins = <<S_http_x, STAR>>
    /\ BuiltConfig.middleware.cors.headers = <<S_X_Id>>
    /\ \E l \in BuiltCorsLayers :
            l.allow_origin.any /\ l.allow_headers = [any |-> FALSE, list |-> <<<<"x", "-", "i", "d">>>>]

\* Where a failure came from, told by the inputs of the failing step.
ValidateFailed ==
    pc = "failed" /\ ~manager.some /\ ~validate(builder.config, validated_fs).res.ok
CorsFailed ==
    /\ pc = "failed"
    /\ manager.some
    /\ builder.config.middleware.cors.enabled
    /\ ~create_cors_layer(builder.config.middleware.cors).ok
MountFailed == pc = "failed" /\ manager.some /\ ~CorsFailed
RunFailed == run_result.some /\ ~run_result.val.ok

\* C12: an invalid port, an architecture/template mismatch and a
\* missing directory are configuration errors, an invalid CORS origin, method or
\* header is a middleware error, and an unparsable address, a bind failure and a
\* runtime I/O failure are server errors.
C12_Taxonomy ==
    /\ ValidateFailed => result.val.variant = "Config"
    /\ MountFailed => result.val.variant = "Config"
    /\ CorsFailed => result.val.variant = "Middleware"
    /\ RunFailed => run_result.val.variant = "ServerStart"

C14_BuiltConfigValid ==
    server.some =>
        /\ BuiltConfig.server.port # 0
        /\ BuiltConfig.middleware.templates.enabled => BuiltConfig.server.architecture = "Full"
        /\ BuiltConfig.middleware.static_files.enabled =>
                BuiltConfig.middleware.static_files.dir \in validated_fs
        /\ BuiltConfig.middleware.templates.enabled =>
                BuiltConfig.middleware.templates.dir \in validated_fs
C14_Witness ==
    /\ server.some
    /\ BuiltConfig.server.port = 65535
    /\ BuiltConfig.middleware.templates.enabled
    /\ BuiltConfig.middleware.static_files.enabled
    /\ "views" \in validated_fs
    /\ "views" \notin fs

\* The text a is h, a colon, and p in decimal.
IsAddressOf(a, h, p) ==
    LET i == LastIndexOf(a, ":")
        port == SubSeq(a, i + 1, Len(a))
    IN /\ i > 0
       /\ SubSeq(a, 1, i - 1) = h
       /\ IsDigits(port)
       /\ Len(port) > 1 => port[1] # "0"
       /\ DecimalValue(port) = p

\* C15: after listen(h, p) the Config's server_address() is h, a colon and p in
\* decimal, and a WebServer built from that Builder reports the same address: the
\* address depends on server.host and server.port only.
C15_ServerAddress ==
    /\ [][\A h \in Hosts, p \in RunPorts :
            Listen(h, p) => IsAddressOf(server_address(builder'.config), h, p)]_vars
    /\ [](server.some =>
            /\ BuiltConfig.server.port # 0
            /\ IsAddressOf(server_address(BuiltConfig),
                           builder.config.server.host, builder.config.server.port))
    /\ []((pc = "failed" /\ validate(builder.config, validated_fs).res.ok) =>
            ~create_cors_layer(builder.config.middleware.cors).ok)
C15_Witness ==
    /\ server.some
    /\ calls = 3
    /\ server_address(BuiltConfig) = S_localhost \o <<":", "6", "5", "5", "3", "5">>

\* C16: run(addr) chooses the override when one is given and server_address()
\* otherwise, and serve() chooses as run(None) does; an address that does not
\* parse ends run() with an error and no bind call; a failed bind ends run() with
\* an error and no request is ever accepted; requests are accepted only on a
\* listener bound to the chosen address.
C16_RunBindsChosenAddress ==
    /\ [][\A addr \in RunAddrs :
            RunResolve(addr) =>
                bind_addr' = Some(IF addr.some THEN addr.val ELSE server_address(BuiltConfig))]_vars
    /\ [][Serve => bind_addr' = Some(server_address(BuiltConfig))]_vars
    /\ []((bind_addr.some /\ pc # "run_parse") =>
            IF ParseSocketAddr(bind_addr.val).ok
            THEN attempts \in {<<>>, <<ParseSocketAddr(bind_addr.val).val>>}
            ELSE pc = "run_failed" /\ RunFailed /\ attempts = <<>> /\ listener = None)
    /\ []((attempts # <<>> /\ attempts[1] \in in_use) =>
            pc = "run_failed" /\ RunFailed /\ listener = None)
    /\ [](pc = "serving" =>
            /\ attempts = <<ParseSocketAddr(bind_addr.val).val>>
            /\ listener = Some(attempts[1])
            /\ attempts[1] \notin in_use)
    /\ [][trace' # trace => pc = "serving" /\ pc' = "serving"]_vars
C16_Witness ==
    /\ pc = "serving"
    /\ bind_addr = Some(S_loop_9000)
    /\ server_address(BuiltConfig) = S_localhost \o <<":", "1">>
    /\ listener = Some([ip |-> <<127, 0, 0, 1>>, port |-> 9000])
    /\ trace # <<>>

\* C17: the Config in the WebServer build() returns is the Builder's Config as
\* it was when build() was called, the MiddlewareManager works on an equal copy,
\* and nothing done with the WebServer afterwards (requests, run, serve) changes
\* the WebServer's Config or router.
C17_ConfigFrozen ==
    /\ [][pc # "chain" => builder' = builder]_vars
    /\ [](manager.some => manager.val.config = builder.config)
    /\ [](server.some => BuiltConfig = builder.config)
    /\ [][server.some => server' = server]_vars
C17_Witness ==
    /\ pc = "run_failed"
    /\ calls = 2
    /\ BuiltConfig.server.port = 1
    /\ BuiltConfig.middleware.static_files.enabled
    /\ attempts # <<>>
    /\ trace # <<>>

\* The filter init_logging obtains: RUST_LOG when it is set and parses, else the
\* configured level.
FilterOk ==
    \/ TryFromDefaultEnv(rust_log).ok
    \/ TryNewFilter(builder.config.middleware.logging.level).ok
NeverReplaced == [][subscriber.some => subscriber' = subscriber]_vars

\* C18 as stated: over any sequence of build() calls the first one that reaches
\* init_logging installs the global subscriber, and a later one neither fails
\* because a subscriber is installed nor replaces it.
C18_FirstReachingInstalls ==
    /\ [][BuildInitLogging =>
            /\ subscriber'.some
            /\ (subscriber.some /\ pc' = "failed") => ~FilterOk]_vars
    /\ NeverReplaced

\* C18 as amended: the first build() whose init_logging obtains a valid filter
\* installs the global subscriber (one whose filter is invalid fails and
\* installs nothing), and a later one neither fails because a subscriber is
\* installed nor replaces it.
C18_FirstValidFilterInstalls ==
    /\ [][BuildInitLogging =>
            /\ FilterOk => subscriber'.some /\ pc' = "apply"
            /\ ~FilterOk => subscriber' = subscriber /\ pc' = "failed"]_vars
    /\ NeverReplaced
C18_Witness ==
    /\ builds = 2
    /\ pc = "built"
    /\ rust_log = None
    /\ subscriber = Some(S_info)
    /\ builder.config.middleware.logging.level = S_debug

Encodes(value) == value.kind \in {"int", "str"}
Encoded(value) ==
    [json |-> IF value.kind = "int" THEN "Number" ELSE "String", v |-> value.v]
\* The step keeps everything of the Builder but the custom map, and the chain open.
OnlyCustomMayChange ==
    /\ builder'.config.server = builder.config.server
    /\ \A f \in {"cors", "jwt", "static_files", "templates", "logging"} :
            builder'.config.middleware[f] = builder.config.middleware[f]
    /\ builder'.router = builder.router
    /\ builder'.custom_middleware = builder.custom_middleware
    /\ pc' = "chain"
    /\ result' = None
WhenEncoded(key, value) ==
    /\ DOMAIN builder'.config.middleware.custom =
            DOMAIN builder.config.middleware.custom \cup {key}
    /\ builder'.config.middleware.custom[key] = Encoded(value)
    /\ \A k \in DOMAIN builder.config.middleware.custom \ {key} :
            builder'.config.middleware.custom[k] = builder.config.middleware.custom[k]

\* C19 as stated: custom_config(key, value) never fails the chain; a value that
\* encodes is stored under key, replacing an earlier value, with every other key
\* and section unchanged; when encoding fails the key is omitted from the map and
\* the rest of the Builder is unchanged.
C19_FailureOmitsKey ==
    [][\A key \in CustomKeys, value \in CustomInputs :
        CustomConfig(key, value) =>
            /\ OnlyCustomMayChange
            /\ IF Encodes(value)
               THEN WhenEncoded(key, value)
               ELSE /\ key \notin DOMAIN builder'.config.middleware.custom
                    /\ \A k \in DOMAIN builder.config.middleware.custom \ {key} :
                        /\ k \in DOMAIN builder'.config.middleware.custom
                        /\ builder'.config.middleware.custom[k] =
                                builder.config.middleware.custom[k]]_vars

\* C19 as amended: as stated, except that when encoding fails nothing is
\* inserted and the whole Builder, an earlier value under the key included, is
\* unchanged.
C19_FailureChangesNothing ==
    [][\A key \in CustomKeys, value \in CustomInputs :
        CustomConfig(key, value) =>
            /\ OnlyCustomMayChange
            /\ IF Encodes(value)
               THEN WhenEncoded(key, value)
               ELSE builder' = builder]_vars
C19_Witness ==
    /\ calls = 3
    /\ pc = "built"
    /\ DOMAIN BuiltConfig.middleware.custom = {"k"}
    /\ BuiltConfig.middleware.custom["k"] = [json |-> "Number", v |-> 2]

\* A Config that differs from the default only in what listen (port not 0),
\* architecture, cors (origins that parse) and jwt_auth set.
OnlyBenignSettings(c) ==
    /\ c.server.port # 0
    /\ \A i \in DOMAIN c.middleware.cors.origins :
            ParseHeaderValue(c.middleware.cors.origins[i]).ok
    /\ c.middleware =
            [ConfigDefault.middleware EXCEPT
                !.cors.enabled = TRUE,
                !.cors.origins = c.middleware.cors.origins,
                !.jwt = c.middleware.jwt]

\* C20: WebServerBuilder::new() starts from the default Config, with port 3000
\* and architecture Api; the default Config passes validate() whatever the disk
\* holds; and a Builder on which only a non-zero listen port, an architecture,
\* CORS origins that parse, JWT settings and routes were set does not fail to
\* build.
C20_DefaultBuildable ==
    /\ WebServerBuilderNew.config = ConfigDefault
    /\ ConfigDefault.server.port = 3000
    /\ ConfigDefault.server.architecture = "Api"
    /\ ~ConfigDefault.middleware.static_files.enabled
    /\ ~ConfigDefault.middleware.templates.enabled
    /\ \A fsys \in SUBSET (ExistingDirs \cup {"missing"}) : validate(ConfigDefault, fsys).res.ok
    /\ OnlyBenignSettings(builder.config) => pc # "failed"
    /\ (OnlyBenignSettings(builder.config) /\ pc = "built") =>
            server.some /\ result = Some(Ok("WebServer"))
C20_Witness ==
    /\ pc = "built"
    /\ calls = 3
    /\ OnlyBenignSettings(BuiltConfig)
    /\ BuiltConfig.server.architecture = "Full"
    /\ BuiltConfig.middleware.jwt.enabled
    /\ builder.router.some
    /\ Served("handler")

\* The names of the layers around the fallback of a router, innermost first.
LayerNames(app) == [i \in DOMAIN app.fallback |-> app.fallback[i].layer]
HasMount(app) == \E r \in app.routes : r.service.service = "ServeDir"

\* C21: apply_middleware applies the logging layer iff logging.requests, the
\* CORS layer iff cors.enabled and the static mount iff static_files.enabled;
\* with the three flags off the router comes back as it went in; a section whose
\* flag is off is neither parsed nor checked, so it cannot fail the call.
C21_FlagsDecideLayers ==
    [][ApplyStep =>
        LET mw == builder.config.middleware
            input == IF builder.router.some THEN builder.router.val ELSE RouterNew
        IN /\ pc' = "built" =>
                /\ LayerNames(server'.val.app) =
                        (IF mw.logging.requests THEN <<"Trace">> ELSE <<>>)
                        \o (IF mw.cors.enabled THEN <<"Cors">> ELSE <<>>)
                /\ HasMount(server'.val.app) <=> mw.static_files.enabled
                /\ {r.path : r \in {q \in server'.val.app.routes : q.kind = "exact"}} =
                        {r.path : r \in input.routes}
                /\ (~mw.logging.requests /\ ~mw.cors.enabled /\ ~mw.static_files.enabled)
                        => server'.val.app = input
           /\ (/\ mw.cors.enabled => ~ParsedInvalid(mw.cors)
               /\ mw.static_files.enabled => mw.static_files.dir \in fs)
                => pc' = "built"
           /\ (mw.cors.enabled /\ ParsedInvalid(mw.cors)) => pc' = "failed"
           /\ (mw.static_files.enabled /\ mw.static_files.dir \notin fs) => pc' = "failed"]_vars
C21_Witness ==
    /\ pc = "built"
    /\ ~BuiltConfig.middleware.logging.requests
    /\ ~BuiltConfig.middleware.cors.enabled
    /\ BuiltConfig.middleware.cors.origins = <<S_ctl>>
    /\ ~BuiltConfig.middleware.static_files.enabled
    /\ BuiltConfig.middleware.static_files.dir = "missing"
    /\ builder.router.some
    /\ server.val.app = builder.router.val

\* C22: middleware(m) registers m behind the descriptors registered before it,
\* build() hands the manager the same descriptors in the same order, and an
\* apply_middleware that completes logs the name of each, once, in that order;
\* names are logged by no other step.
C22_LoggedInRegistrationOrder ==
    /\ [][\A m \in Descriptors :
            Middleware(m) =>
                /\ builder'.custom_middleware = Append(builder.custom_middleware, m)
                /\ builder'.config = builder.config
                /\ builder'.router = builder.router]_vars
    /\ [](manager.some => manager.val.custom_middleware = builder.custom_middleware)
    /\ [](pc = "built" =>
            /\ Len(logged) = Len(builder.custom_middleware)
            /\ \A i \in DOMAIN logged : logged[i] = builder.custom_middleware[i].name)
    /\ [][logged' # logged => ApplyStep /\ pc' = "built"]_vars
C22_Witness ==
    /\ pc = "built"
    /\ builder.custom_middleware = <<[name |-> "m2"], [name |-> "m1"]>>
    /\ logged = <<"m2", "m1">>

\* Everything of the Builder outside the named parts is as it was, and the chain
\* is still open with no error.
SameOutside(parts) ==
    /\ "server" \notin parts => builder'.config.server = builder.config.server
    /\ \A f \in {"cors", "jwt", "static_files", "templates", "logging", "custom"} \ parts :
            builder'.config.middleware[f] = builder.config.middleware[f]
    /\ "router" \notin parts => builder'.router = builder.router
    /\ "custom_middleware" \notin parts =>
            builder'.custom_middleware = builder.custom_middleware
    /\ pc' = "chain"
    /\ result' = None

\* C23: every setter returns the Builder with only its own fields changed:
\* listen the host and the port, architecture the architecture (the template
\* settings stay), cors the CORS flag and origins (methods and headers stay),
\* static_files, jwt_auth and log_level their own section, routes and middleware
\* no Config field; none of them ends the chain.
C23_SettersChangeOwnFields ==
    [][/\ \A h \in Hosts, p \in Ports :
            Listen(h, p) =>
                /\ SameOutside({"server"})
                /\ builder'.config.server =
                        [host |-> h, port |-> p,
                         architecture |-> builder.config.server.architecture]
       /\ \A a \in Architectures :
            Architecture(a) =>
                /\ SameOutside({"server"})
                /\ builder'.config.server =
                        [host |-> builder.config.server.host,
                         port |-> builder.config.server.port,
                         architecture |-> a]
       /\ \A o \in {<<S_http_x>>, <<S_ctl>>, <<STAR, S_ctl>>} :
            Cors(o) =>
                /\ SameOutside({"cors"})
                /\ builder'.config.middleware.cors =
                        [enabled |-> TRUE, origins |-> o,
                         methods |-> builder.config.middleware.cors.methods,
                         headers |-> builder.config.middleware.cors.headers]
       /\ \A d \in StaticDirChoices, p \in {S_s, S_s_slash} :
            StaticFiles(d, p) =>
                /\ SameOutside({"static_files"})
                /\ builder'.config.middleware.static_files =
                        [enabled |-> TRUE, dir |-> d, prefix |-> p]
       /\ JwtAuth("test-secret", 60) =>
                /\ SameOutside({"jwt"})
                /\ builder'.config.middleware.jwt =
                        [enabled |-> TRUE, secret |-> "test-secret", expires_in |-> 60]
       /\ \A l \in {S_debug, S_x_loud} :
            LogLevel(l) =>
                /\ SameOutside({"logging"})
                /\ builder'.config.middleware.logging =
                        [level |-> l, requests |-> builder.config.middleware.logging.requests]
       /\ \A r \in BaseRouters :
            Routes(r) => SameOutside({"router"}) /\ builder'.router = Some(r)
       /\ \A m \in Descriptors :
            Middleware(m) => SameOutside({"custom_middleware"})]_vars
C23_Witness ==
    /\ pc = "chain"
    /\ calls = 3
    /\ builder.config.server = [host |-> S_loop, port |-> 8080, architecture |-> "Full"]
    /\ builder.config.middleware.cors =
            [CorsConfigDefault EXCEPT !.origins = <<S_http_x>>]
    /\ builder.config.middleware.templates = TemplateConfigDefault

StaticMissing == Some(Err("Config", "static dir missing"))

\* C24: with static files enabled, validate() checks that the directory exists
\* and apply_static_files checks it again. When the disk is as it was at
\* validate() the second check does not fail; when the directory was removed in
\* between, build() fails with no WebServer, and with the error of the second
\* check whenever apply_middleware got as far as that check.
C24_DirCheckedTwice ==
    /\ []((builder.config.middleware.static_files.enabled
           /\ pc \in {"init_logging", "apply", "built"}) =>
            /\ evaluated = CheckOrder
            /\ builder.config.middleware.static_files.dir \in validated_fs)
    /\ [][(ApplyStep /\ builder.config.middleware.static_files.enabled) =>
            LET sf == builder.config.middleware.static_files
                cors_step_ok ==
                    builder.config.middleware.cors.enabled =>
                        ~ParsedInvalid(builder.config.middleware.cors)
            IN /\ fs = validated_fs => result' # StaticMissing
               /\ (fs = validated_fs /\ cors_step_ok) => pc' = "built"
               /\ sf.dir \notin fs => pc' = "failed" /\ ~server'.some /\ IsErr(result')
               /\ (sf.dir \notin fs /\ cors_step_ok) => result' = StaticMissing
               /\ result' = StaticMissing => sf.dir \in validated_fs \ fs]_vars
C24_Witness ==
    /\ pc = "failed"
    /\ manager.some
    /\ ~server.some
    /\ builder.config.middleware.static_files.enabled
    /\ builder.config.middleware.static_files.dir \in validated_fs \ fs
    /\ builder.config.middleware.cors.enabled
    /\ result = StaticMissing

\* The routes of a router without the layers wrapped around them.
BareRoutes(app) ==
    {[kind |-> r.kind, path |-> r.path, service |-> r.service] : r \in app.routes}
ValidatedOk == evaluated = CheckOrder /\ Violated(builder.config, validated_fs) = {}

\* C25: build() validates, then initialises logging, then applies the
\* middleware, then constructs the WebServer: the global subscriber is installed
\* and the manager works only after validate() accepted the Builder's Config, a
\* build() that validate() rejected has touched neither, and the router the
\* layers are applied to is the one last given to routes(), or an empty router.
C25_BuildOrder ==
    /\ subscriber.some => ValidatedOk
    /\ manager.some => ValidatedOk /\ subscriber.some /\ pc \in {"built", "failed"}
    /\ server.some => manager.some /\ manager.val.config = builder.config
    /\ Violated(builder.config, validated_fs) # {} =>
            ~subscriber.some /\ ~manager.some /\ ~server.some /\ logged = <<>>
    /\ pc = "built" =>
            {r \in BareRoutes(server.val.app) : r.kind = "exact"} =
                IF builder.router.some THEN BareRoutes(builder.router.val) ELSE {}
C25_Witness ==
    /\ pc = "built"
    /\ calls = 3
    /\ builder.custom_middleware = <<>>
    /\ builder.router = Some(RouterRoute(RouterNew, "exact", S_u, [service |-> "handler"]))
    /\ BuiltConfig.middleware.static_files.enabled
    /\ subscriber.some
    /\ LayerNames(server.val.app) = <<"Trace", "Cors">>

\* C26: config(c) makes the Builder's Config c, and a config_from_file that
\* loads makes it the Config of the file, whatever the setters before had made
\* of it; both keep the router given to routes() and the registered middleware.
C26_ConfigReplacedWhole ==
    [][/\ \A c \in ConfigChoices :
            SetConfig(c) =>
                /\ builder'.config = c
                /\ SameOutside({"server", "cors", "jwt", "static_files", "templates",
                                "logging", "custom"})
       /\ \A path \in FilePaths :
            (Loads(path) /\ ConfigFromFile(path)) =>
                /\ builder'.config.server.host = Files[path].server.host
                /\ builder'.config.server.port = Files[path].server.port
                /\ builder'.config.server.architecture \in {"Api", "Full"}
                /\ (builder'.config.server.architecture = "Api")
                        <=> Files[path].server.architecture = "api"
                /\ builder'.config.middleware = Files[path].middleware
                /\ SameOutside({"server", "cors", "jwt", "static_files", "templates",
                                "logging", "custom"})]_vars
C26_Witness ==
    /\ pc = "chain"
    /\ calls = 3
    /\ builder.config =
            [ConfigDefault EXCEPT !.middleware.cors.enabled = FALSE,
                                  !.middleware.logging.requests = FALSE]
    /\ builder.router.some
    /\ builder.custom_middleware = <<[name |-> "m1"]>>

\* One call of a setter, and the Builder it returns.
SetterCalls ==
    {[op |-> "listen", host |-> h, port |-> p] : h \in Hosts, p \in Ports}
    \cup {[op |-> "cors", origins |-> o] : o \in {<<S_http_x>>, <<STAR, S_ctl>>}}
    \cup {[op |-> "static_files", dir |-> d, prefix |-> S_s] : d \in StaticDirChoices}
    \cup {[op |-> "jwt_auth", secret |-> "test-secret", expires_in |-> 60]}
    \cup {[op |-> "log_level", level |-> l] : l \in {S_debug, S_x_loud}}
    \cup {[op |-> "custom_config", key |-> k, value |-> v] :
            k \in CustomKeys, v \in CustomInputs}
Call(b, s) ==
    CASE s.op = "listen" -> listen(b, s.host, s.port)
      [] s.op = "cors" -> cors(b, s.origins)
      [] s.op = "static_files" -> static_files(b, s.dir, s.prefix)
      [] s.op = "jwt_auth" -> jwt_auth(b, s.secret, s.expires_in)
      [] s.op = "log_level" -> log_level(b, s.level)
      [] s.op = "custom_config" -> custom_config(b, s.key, s.value)
\* Two calls of different setters, or two custom_config calls on different keys.
Distinct(s, t) ==
    \/ s.op # t.op
    \/ s.op = "custom_config" /\ s.key # t.key

\* C27: on every Builder, two calls of different setters among listen, cors,
\* static_files, jwt_auth, log_level and custom_config, or two custom_config
\* calls on different keys, give the same Builder in either order; architecture
\* (Full) then templates(d, e) enables templates, while templates(d, e) then
\* architecture(Full), on a Builder under Api with templates off, leaves them off.
C27_SettersCommute ==
    pc = "chain" =>
        /\ \A s \in SetterCalls, t \in SetterCalls :
                Distinct(s, t) => Call(Call(builder, s), t) = Call(Call(builder, t), s)
        /\ \A d \in TemplateDirChoices :
            /\ templates(architecture(builder, "Full"), d, "tera").config.middleware.templates
                    = [enabled |-> TRUE, dir |-> d, extension |-> "tera"]
            /\ (/\ builder.config.server.architecture = "Api"
                /\ ~builder.config.middleware.templates.enabled) =>
                    /\ ~architecture(templates(builder, d, "tera"), "Full")
                            .config.middleware.templates.enabled
                    /\ architecture(templates(builder, d, "tera"), "Full")
                            # templates(architecture(builder, "Full"), d, "tera")
C27_Witness ==
    /\ pc = "chain"
    /\ calls = 2
    /\ builder.config.server = [host |-> S_localhost, port |-> 8080, architecture |-> "Api"]
    /\ builder.config.middleware.logging.level = S_debug
    /\ ~builder.config.middleware.templates.enabled
    /\ Call(Call(builder, [op |-> "custom_config", key |-> "k", value |-> [kind |-> "int", v |-> 1]]),
            [op |-> "custom_config", key |-> "j", value |-> [kind |-> "int", v |-> 2]])
        .config.middleware.custom =
            [k \in {"k", "j"} |-> [json |-> "Number", v |-> IF k = "k" THEN 1 ELSE 2]]

JwtVariants ==
    {JwtConfigDefault,
     [enabled |-> TRUE, secret |-> "test-secret", expires_in |-> 60],
     [enabled |-> TRUE, secret |-> "", expires_in |-> 0]}
TemplateVariants ==
    {[enabled |-> e, dir |-> d, extension |-> x] :
        e \in BOOLEAN, d \in TemplateDirChoices, x \in {"html", "tera"}}
\* What apply_middleware returns for the Builder with another Config.
AppliedWith(c) ==
    apply_middleware(BuildManager([builder EXCEPT !.config = c]), BaseRouter(builder), fs).res
RequestVariants ==
    {[authorization |-> a] : a \in {"none", "Bearer good", "Bearer expired", "Basic x"}}

\* C28: the router apply_middleware composes does not depend on the JWT
\* section, nor on the template section among Configs that pass validate(); it
\* holds the logging and CORS layers only, no request is stopped by a JWT layer,
\* and the JWT placeholder middleware forwards every request and returns the
\* inner response.
C28_JwtAndTemplatesInert ==
    /\ pc = "apply" =>
        /\ \A j \in JwtVariants :
                AppliedWith([builder.config EXCEPT !.middleware.jwt = j])
                    = AppliedWith(builder.config)
        /\ \A t \in TemplateVariants :
                validate([builder.config EXCEPT !.middleware.templates = t], fs).res.ok =>
                    AppliedWith([builder.config EXCEPT !.middleware.templates = t])
                        = AppliedWith(builder.config)
    /\ pc = "built" =>
        /\ Range(LayerNames(server.val.app)) \subseteq {"Trace", "Cors"}
        /\ trace # <<>> => \E i \in DOMAIN trace :
                trace[i].ev = "call" /\ trace[i].by \in {"handler", "ServeDir", "NotFound"}
    /\ \A r \in RequestVariants, inner \in {200, 404} :
        /\ jwt_auth_middleware(r, inner).res = Ok(inner)
        /\ jwt_auth_middleware(r, inner).forwarded = r
C28_Witness ==
    /\ pc = "built"
    /\ BuiltConfig.middleware.jwt = [enabled |-> TRUE, secret |-> "test-secret", expires_in |-> 60]
    /\ BuiltConfig.server.architecture = "Full"
    /\ LayerNames(server.val.app) = <<"Trace", "Cors">>
    /\ Served("NotFound")

\* Hosts that are not IP literals.
NamedHosts == {S_localhost, <<>>}

\* C29: validate() does not look at server.host, so a host name or an empty
\* host passes validate() and build(); run() on the default address of such a
\* server ends at the address parse with a server-start error, before any call
\* to bind; a run() that binds such a server was given an override.
C29_HostUnchecked ==
    /\ pc = "chain" =>
            \A h \in Hosts \cup NamedHosts :
                validate([builder.config EXCEPT !.server.host = h], fs)
                    = validate(builder.config, fs)
    /\ (pc = "failed" /\ builder.config.server.host \in NamedHosts) =>
            \/ Violated(builder.config, validated_fs) # {}
            \/ ParsedInvalid(builder.config.middleware.cors)
    /\ (/\ server.some
        /\ BuiltConfig.server.host \in NamedHosts
        /\ bind_addr = Some(server_address(BuiltConfig))
        /\ pc # "run_parse") =>
            /\ pc = "run_failed"
            /\ run_result = Some(Err("ServerStart", "invalid address"))
            /\ attempts = <<>>
            /\ listener = None
    /\ (server.some /\ BuiltConfig.server.host \in NamedHosts /\ attempts # <<>>) =>
            bind_addr = Some(S_loop_9000)
C29_Witness ==
    /\ pc = "run_failed"
    /\ server.some
    /\ BuiltConfig.server.host = <<>>
    /\ bind_addr = Some(<<":", "8", "0", "8", "0">>)
    /\ attempts = <<>>
    /\ run_result = Some(Err("ServerStart", "invalid address"))

\* The filter strings drawn that are valid directives.
ValidFilters == {S_info, S_debug}
EnvFilterAvailable == rust_log.some /\ rust_log.val \in ValidFilters
LevelValid == builder.config.middleware.logging.level \in ValidFilters

\* C30: build() can fail in init_logging: with no usable RUST_LOG filter and a
\* logging.level that is not a valid filter, it returns a configuration error
\* after validate() succeeded, with no manager, no middleware applied and no
\* WebServer; with a usable RUST_LOG filter logging.level is not parsed and the
\* build goes on, as it does on a valid level without one.
C30_LoggingCanFailBuild ==
    /\ [][BuildInitLogging =>
            /\ ValidatedOk
            /\ (~EnvFilterAvailable /\ ~LevelValid) =>
                    /\ pc' = "failed"
                    /\ result' = Some(Err("Config", "invalid log level"))
                    /\ subscriber' = subscriber
            /\ EnvFilterAvailable =>
                    /\ pc' = "apply"
                    /\ subscriber' = IF subscriber.some THEN subscriber ELSE rust_log
            /\ (~EnvFilterAvailable /\ LevelValid) =>
                    /\ pc' = "apply"
                    /\ subscriber' = IF subscriber.some THEN subscriber
                                     ELSE Some(builder.config.middleware.logging.level)]_vars
    /\ []((pc = "failed" /\ ValidatedOk /\ ~manager.some) =>
            /\ ~EnvFilterAvailable
            /\ ~LevelValid
            /\ ~server.some
            /\ logged = <<>>
            /\ result.val.variant = "Config")
    /\ []((pc = "failed" /\ ~ValidatedOk) => ~manager.some /\ IsErr(result))
C30_Witness ==
    /\ pc = "failed"
    /\ ValidatedOk
    /\ ~manager.some
    /\ ~server.some
    /\ rust_log = Some(S_x_loud)
    /\ builder.config.middleware.logging.level = S_x_loud
    /\ result = Some(Err("Config", "invalid log level"))

====
